---- MODULE Spec2Model ----
(***************************************************************************)
(* Model of the LiquidSky project-file scripts.                             *)
(*                                                                         *)
(* A project.pbxproj text is modelled as the sequence of its items in text *)
(* order.  An item is a section marker comment, a record                   *)
(* (`id /* name */ = { isa = ...; ... };`) or the trailing rootObject line. *)
(* Every identifier written in a reference position of an item is kept, in *)
(* text order, in the item's refs as [f, id, c]: the field it is written   *)
(* in, the identifier and its inline comment.  The regular expressions and *)
(* substring tests of the scripts are translated to scans over this        *)
(* sequence; the textual details they depend on are kept as fields:        *)
(*   hdr     how the header comment is written: "star" for `/* name */`,   *)
(*           "slash" for `/ name /`, "none" for a header without comment;  *)
(*   compact an empty list is written `();` instead of `(` newline `);`;   *)
(*   shallow the record is closed by `};` at one tab of indentation.       *)
(***************************************************************************)
EXTENDS Integers, Sequences, FiniteSets, TLC

VARIABLES content, content0, prev, hist, uuid_calls, generated,
          gen_pc, app_files, features_files, model_files, pbxproj_content,
          pc, script, to_write, disk, returned, uuid,
          swift_files, swift_files0, todo, files_processed, imports_removed,
          files_written, fix_pc, fix_runs, attempts, package_pc

vars == <<content, content0, prev, hist, uuid_calls, generated,
          gen_pc, app_files, features_files, model_files, pbxproj_content,
          pc, script, to_write, disk, returned, uuid,
          swift_files, swift_files0, todo, files_processed, imports_removed,
          files_written, fix_pc, fix_runs, attempts, package_pc>>

mut_vars == <<content, content0, prev, hist, uuid_calls, generated>>

gen_vars == <<gen_pc, app_files, features_files, model_files, pbxproj_content>>

\* the position in a script that is followed statement by statement, the
\* script, the text it is about to write, the files of the LiquidSky
\* directory, the values generate_uuid has returned and the last of them
step_vars == <<pc, script, to_write, disk, returned, uuid>>

\* fix_module_imports: the Swift files on disk, as they are and as they were
\* before the first run, the files the current run has yet to visit, its two
\* counters, the files it has written, its position and the number of runs
\* started
fix_vars == <<swift_files, swift_files0, todo, files_processed, imports_removed,
              files_written, fix_pc, fix_runs>>

\* add_package_dependencies: the xcodebuild calls made, each with its outcome,
\* and the position of the run
package_vars == <<attempts, package_pc>>

aux_vars == <<fix_vars, package_vars>>

(***************************************************************************)
(* Bounds                                                                  *)
(***************************************************************************)
\* number of script runs on one project file
MaxRuns == 3

\* length of each list of discovered Swift files
MaxFiles == 1

(***************************************************************************)
(* Items                                                                   *)
(***************************************************************************)
E(f, id, c) == [f |-> f, id |-> id, c |-> c]

Rec(isa, id, name, hdr, refs) ==
  [isa |-> isa, id |-> id, name |-> name, hdr |-> hdr, refs |-> refs,
   compact |-> FALSE, shallow |-> FALSE,
   repositoryURL |-> "", minimumVersion |-> "", productName |-> ""]

Marker(text) == Rec("marker", "", text, "star", <<>>)

IsRecord(r) == r.id # ""

BuildPhaseKinds ==
  {"PBXFrameworksBuildPhase", "PBXResourcesBuildPhase", "PBXSourcesBuildPhase"}

\* the record has a `files = (` field
HasFiles(r) == r.isa \in BuildPhaseKinds

\* the record has a `children = (` field
HasChildren(r) == r.isa = "PBXGroup"

\* the entries of list field f of record r, in text order
ListOf(r, f) == SelectSeq(r.refs, LAMBDA e : e.f = f)

Ids(es) == [k \in 1..Len(es) |-> es[k].id]

Range(s) == {s[k] : k \in 1..Len(s)}

Min(S) == CHOOSE x \in S : \A y \in S : x <= y

\* the text that results from writing `items` after every item of d whose
\* index is in S
RECURSIVE Splice(_, _, _, _)
Splice(d, S, items, i) ==
  IF i > Len(d) THEN <<>>
  ELSE <<d[i]>> \o (IF i \in S THEN items ELSE <<>>) \o Splice(d, S, items, i + 1)

MarkerAt(d, text) == {i \in 1..Len(d) : d[i].isa = "marker" /\ d[i].name = text}

\* `id in content`: the identifier is written somewhere in the text
IdInContent(d, id) ==
  \E i \in 1..Len(d) :
    \/ d[i].id = id
    \/ \E k \in 1..Len(d[i].refs) : d[i].refs[k].id = id

\* `"id /* c */" in content`
IdCommentInContent(d, id, c) ==
  \E i \in 1..Len(d) :
    \/ d[i].id = id /\ d[i].hdr = "star" /\ d[i].name = c
    \/ \E k \in 1..Len(d[i].refs) : d[i].refs[k].id = id /\ d[i].refs[k].c = c

\* `word in content` for a word that is an isa value or part of a section marker
IsaInContent(d, word) ==
  \E i \in 1..Len(d) :
    \/ d[i].isa = word
    \/ d[i].isa = "marker"
       /\ d[i].name \in {"Begin " \o word \o " section", "End " \o word \o " section"}

(***************************************************************************)
(* Identifiers of the Horizon project that the scripts address             *)
(***************************************************************************)
FrameworksPhaseId == "1D1A9BBB2E761986002B8F85"

HorizonTargetId == "1D1A9BBD2E761986002B8F85"

ProjectObjectId == "1D1A9BB62E761986002B8F85"

MainGroupId == "1D1A9BB52E761986002B8F85"

ProductsGroupId == "1D60002922D4FAF6008BF43F"

(***************************************************************************)
(* add_frameworks.py                                                       *)
(***************************************************************************)
\* the Frameworks header `1D1A9BBB2E761986002B8F85 /* Frameworks */ = {`
afd_frameworks_header(r) ==
  r.id = FrameworksPhaseId /\ r.hdr = "star" /\ r.name = "Frameworks"

framework_files ==
  << E("files", "1D60000F22D4FAF6008BF43F", "UIKit.framework in Frameworks"),
     E("files", "1D60001022D4FAF6008BF43F", "Foundation.framework in Frameworks"),
     E("files", "1D60001122D4FAF6008BF43F", "SwiftUI.framework in Frameworks"),
     E("files", "1D60001222D4FAF6008BF43F", "Combine.framework in Frameworks"),
     E("files", "1D60001322D4FAF6008BF43F", "CoreData.framework in Frameworks") >>

package_products ==
  << E("files", "1D60001422D4FAF6008BF43F", "ATProtoKit in Frameworks"),
     E("files", "1D60001522D4FAF6008BF43F", "KeychainSwift in Frameworks"),
     E("files", "1D60001622D4FAF6008BF43F", "AppRouter in Frameworks"),
     E("files", "1D60001722D4FAF6008BF43F", "Nuke in Frameworks"),
     E("files", "1D60001822D4FAF6008BF43F", "NukeUI in Frameworks"),
     E("files", "1D60001922D4FAF6008BF43F", "ViewInspector in Frameworks"),
     E("files", "1D60001A22D4FAF6008BF43F", "AcknowList in Frameworks") >>

BF(id, name, f, ref, c) == Rec("PBXBuildFile", id, name, "star", <<E(f, ref, c)>>)

afd_buildfile_entries ==
  << BF("1D60000F22D4FAF6008BF43F", "UIKit.framework in Frameworks",
        "fileRef", "1D60000E22D4FAF6008BF43F", "UIKit.framework"),
     BF("1D60001022D4FAF6008BF43F", "Foundation.framework in Frameworks",
        "fileRef", "1D60000D22D4FAF6008BF43F", "Foundation.framework"),
     BF("1D60001122D4FAF6008BF43F", "SwiftUI.framework in Frameworks",
        "fileRef", "1D60000C22D4FAF6008BF43F", "SwiftUI.framework"),
     BF("1D60001222D4FAF6008BF43F", "Combine.framework in Frameworks",
        "fileRef", "1D60000B22D4FAF6008BF43F", "Combine.framework"),
     BF("1D60001322D4FAF6008BF43F", "CoreData.framework in Frameworks",
        "fileRef", "1D60000A22D4FAF6008BF43F", "CoreData.framework"),
     BF("1D60001422D4FAF6008BF43F", "ATProtoKit in Frameworks",
        "productRef", "1D60002022D4FAF6008BF43F", "ATProtoKit"),
     BF("1D60001522D4FAF6008BF43F", "KeychainSwift in Frameworks",
        "productRef", "1D60002122D4FAF6008BF43F", "KeychainSwift"),
     BF("1D60001622D4FAF6008BF43F", "AppRouter in Frameworks",
        "productRef", "1D60002222D4FAF6008BF43F", "AppRouter"),
     BF("1D60001722D4FAF6008BF43F", "Nuke in Frameworks",
        "productRef", "1D60002322D4FAF6008BF43F", "Nuke"),
     BF("1D60001822D4FAF6008BF43F", "NukeUI in Frameworks",
        "productRef", "1D60002422D4FAF6008BF43F", "NukeUI"),
     BF("1D60001922D4FAF6008BF43F", "ViewInspector in Frameworks",
        "productRef", "1D60002522D4FAF6008BF43F", "ViewInspector"),
     BF("1D60001A22D4FAF6008BF43F", "AcknowList in Frameworks",
        "productRef", "1D60002622D4FAF6008BF43F", "AcknowList") >>

\* replace_frameworks with the system frameworks joined in twice
replace_frameworks_repeated == framework_files \o framework_files \o package_products

\* the text replace_frameworks writes between `files = (` and `);`
replace_frameworks == framework_files \o package_products

\* re.sub(frameworks_pattern, replace_frameworks, content), scanning from
\* item `from`.  The pattern starts at a Frameworks header; its lazy
\* `[\s\S]*?files = \(` runs on, across records, to the first `files = (`
\* that is followed by `\s*\);`, which is where the entries are written; the
\* match ends at the `};` closing that record and the scan resumes behind it.
RECURSIVE sub_frameworks_pattern(_, _)
sub_frameworks_pattern(d, from) ==
  LET hs == {i \in from..Len(d) : afd_frameworks_header(d[i])}
  IN  IF hs = {} THEN d
      ELSE LET i  == Min(hs)
               js == {j \in i..Len(d) : HasFiles(d[j]) /\ ListOf(d[j], "files") = <<>>}
           IN  IF js = {} THEN d
               ELSE LET j == Min(js)
                    IN  sub_frameworks_pattern(
                          [d EXCEPT ![j].refs = @ \o replace_frameworks], j + 1)

\* add_framework_dependencies writing its PBXBuildFile entries in place of
\* the records of the section
add_framework_dependencies_overwriting(d) ==
  LET new_content == sub_frameworks_pattern(d, 1)
      written == {afd_buildfile_entries[k].id : k \in 1..Len(afd_buildfile_entries)}
  IN  IF ~IdInContent(new_content, "1D60000F22D4FAF6008BF43F")
      THEN SelectSeq(
             Splice(new_content, MarkerAt(new_content, "Begin PBXBuildFile section"),
                    afd_buildfile_entries, 1),
             LAMBDA r : r.isa # "PBXBuildFile" \/ r.id \in written)
      ELSE new_content

add_framework_dependencies(d) ==
  LET new_content == sub_frameworks_pattern(d, 1)
  IN  IF ~IdInContent(new_content, "1D60000F22D4FAF6008BF43F")
      THEN Splice(new_content, MarkerAt(new_content, "Begin PBXBuildFile section"),
                  afd_buildfile_entries, 1)
      ELSE new_content

(***************************************************************************)
(* complete_framework_fix.py                                               *)
(***************************************************************************)
buildfile_entries ==
  << BF("1D60000F22D4FAF6008BF43F", "UIKit.framework in Frameworks",
        "fileRef", "1D60000E22D4FAF6008BF43F", "UIKit.framework"),
     BF("1D60001022D4FAF6008BF43F", "Foundation.framework in Frameworks",
        "fileRef", "1D60000D22D4FAF6008BF43F", "Foundation.framework"),
     BF("1D60001122D4FAF6008BF43F", "SwiftUI.framework in Frameworks",
        "fileRef", "1D60000C22D4FAF6008BF43F", "SwiftUI.framework"),
     BF("1D60001222D4FAF6008BF43F", "Combine.framework in Frameworks",
        "fileRef", "1D60000B22D4FAF6008BF43F", "Combine.framework"),
     BF("1D60001322D4FAF6008BF43F", "CoreData.framework in Frameworks",
        "fileRef", "1D60000A22D4FAF6008BF43F", "CoreData.framework"),
     BF("1D60001422D4FAF6008BF43F", "ATProtoKit in Frameworks",
        "productRef", "1D60002022D4FAF6008BF43F", "ATProtoKit"),
     BF("1D60001522D4FAF6008BF43F", "KeychainSwift in Frameworks",
        "productRef", "1D60002122D4FAF6008BF43F", "KeychainSwift"),
     BF("1D60001622D4FAF6008BF43F", "AppRouter in Frameworks",
        "productRef", "1D60002222D4FAF6008BF43F", "AppRouter"),
     BF("1D60001722D4FAF6008BF43F", "Nuke in Frameworks",
        "productRef", "1D60002322D4FAF6008BF43F", "Nuke"),
     BF("1D60001822D4FAF6008BF43F", "NukeUI in Frameworks",
        "productRef", "1D60002422D4FAF6008BF43F", "NukeUI"),
     BF("1D60001922D4FAF6008BF43F", "ViewInspector in Frameworks",
        "productRef", "1D60002522D4FAF6008BF43F", "ViewInspector"),
     BF("1D60001A22D4FAF6008BF43F", "AcknowList in Frameworks",
        "productRef", "1D60002622D4FAF6008BF43F", "AcknowList") >>

FR(id, name) == Rec("PBXFileReference", id, name, "star", <<>>)

fileref_entries ==
  << FR("1D60000E22D4FAF6008BF43F", "UIKit.framework"),
     FR("1D60000D22D4FAF6008BF43F", "Foundation.framework"),
     FR("1D60000C22D4FAF6008BF43F", "SwiftUI.framework"),
     FR("1D60000B22D4FAF6008BF43F", "Combine.framework"),
     FR("1D60000A22D4FAF6008BF43F", "CoreData.framework") >>

PR(id, name, url, version) ==
  [Rec("XCRemoteSwiftPackageReference", id, name, "star", <<>>)
     EXCEPT !.repositoryURL = url, !.minimumVersion = version]

package_refs ==
  << PR("1D60001B22D4FAF6008BF43F", "XCRemoteSwiftPackageReference \"ATProtoKit\"",
        "https://github.com/MasterJ93/ATProtoKit", "0.31.2"),
     PR("1D60001C22D4FAF6008BF43F", "XCRemoteSwiftPackageReference \"KeychainSwift\"",
        "https://github.com/evgenyneu/keychain-swift", "24.0.0"),
     PR("1D60001D22D4FAF6008BF43F", "XCRemoteSwiftPackageReference \"AppRouter\"",
        "https://github.com/Dimillian/AppRouter.git", "1.0.2"),
     PR("1D60001E22D4FAF6008BF43F", "XCRemoteSwiftPackageReference \"Nuke\"",
        "https://github.com/kean/Nuke", "12.8.0"),
     PR("1D60001F22D4FAF6008BF43F", "XCRemoteSwiftPackageReference \"NukeUI\"",
        "https://github.com/kean/Nuke", "12.8.0"),
     PR("1D60002022D4FAF6008BF43F", "XCRemoteSwiftPackageReference \"ViewInspector\"",
        "https://github.com/nalexn/ViewInspector", "0.10.1"),
     PR("1D60002122D4FAF6008BF43F", "XCRemoteSwiftPackageReference \"AcknowList\"",
        "https://github.com/vtourraine/AcknowList", "3.3.0") >>

PP(id, name) ==
  [Rec("XCRemoteSwiftPackageProduct", id, name, "star", <<>>) EXCEPT !.productName = name]

\* built by the script but written nowhere: products_group is not an f-string
product_refs ==
  << PP("1D60002222D4FAF6008BF43F", "ATProtoKit"),
     PP("1D60002322D4FAF6008BF43F", "KeychainSwift"),
     PP("1D60002422D4FAF6008BF43F", "AppRouter"),
     PP("1D60002522D4FAF6008BF43F", "Nuke"),
     PP("1D60002622D4FAF6008BF43F", "NukeUI"),
     PP("1D60002722D4FAF6008BF43F", "ViewInspector"),
     PP("1D60002822D4FAF6008BF43F", "AcknowList") >>

\* the Products group text; its children list holds the literal text
\* `{product_refs}`, and it is closed by `};` at two tabs
products_group ==
  Rec("PBXGroup", ProductsGroupId, "Products", "star",
      <<E("children", "{product_refs}", "")>>)

\* `rootObject = 1D1A9BB62E761986002B8F85 /* Project object */;` up to the
\* next `}` (every text ends with the `}` closing the document)
project_pattern(d) ==
  {i \in 1..Len(d) :
     /\ d[i].isa = "rootObject"
     /\ d[i].refs = <<E("rootObject", ProjectObjectId, "Project object")>>}

\* the main group header `1D1A9BB52E761986002B8F85 = {`
cff_group_header(r) == r.id = MainGroupId /\ r.hdr = "none"

\* re.sub(group_pattern, add_products, content), scanning from item `from`:
\* from a main group header the lazy `[\s\S]*?children = \(` runs on to the
\* first `children = (` that is followed by `\s*\);`
RECURSIVE sub_group_pattern(_, _)
sub_group_pattern(d, from) ==
  LET hs == {i \in from..Len(d) : cff_group_header(d[i])}
  IN  IF hs = {} THEN d
      ELSE LET i  == Min(hs)
               js == {j \in i..Len(d) :
                        HasChildren(d[j]) /\ ListOf(d[j], "children") = <<>>}
           IN  IF js = {} THEN d
               ELSE LET j == Min(js)
                    IN  sub_group_pattern(
                          [d EXCEPT ![j].refs =
                             @ \o <<E("children", ProductsGroupId, "Products")>>],
                          j + 1)

\* `sourceTree = "<group>";` newline, tab, `};` newline: the end of a group
\* record that is closed at one tab
main_group_pattern(d) == {i \in 1..Len(d) : d[i].isa = "PBXGroup" /\ d[i].shallow}

\* cff_add_buildfiles without the test for 1D60000F22D4FAF6008BF43F
cff_add_buildfiles_unguarded(d) ==
  Splice(d, MarkerAt(d, "Begin PBXBuildFile section"), buildfile_entries, 1)

cff_add_buildfiles(d) ==
  IF ~IdInContent(d, "1D60000F22D4FAF6008BF43F")
  THEN Splice(d, MarkerAt(d, "Begin PBXBuildFile section"), buildfile_entries, 1)
  ELSE d

cff_add_filerefs(d) ==
  IF ~IdCommentInContent(d, "1D60000E22D4FAF6008BF43F", "UIKit.framework")
  THEN Splice(d, MarkerAt(d, "Begin PBXFileReference section"), fileref_entries, 1)
  ELSE d

cff_add_packages(d) ==
  IF ~IsaInContent(d, "XCRemoteSwiftPackageReference")
  THEN Splice(d, project_pattern(d), package_refs, 1)
  ELSE d

cff_add_products(d) ==
  IF ~IsaInContent(d, "XCRemoteSwiftPackageProduct")
  THEN LET c1 == sub_group_pattern(d, 1)
       IN  IF ~IdCommentInContent(c1, ProductsGroupId, "Products")
           THEN Splice(c1, main_group_pattern(c1), <<products_group>>, 1)
           ELSE c1
  ELSE d

complete_framework_fix(d) ==
  cff_add_products(cff_add_packages(cff_add_filerefs(cff_add_buildfiles(d))))

(***************************************************************************)
(* modify_horizon_project.py                                               *)
(***************************************************************************)
\* the value of the n-th call of generate_uuid: a token that differs from
\* call to call and from the 24-digit identifiers of the project
generate_uuid(n) == "UUID4-" \o ToString(n)

packages ==
  << [name |-> "ATProtoKit", url |-> "https://github.com/MasterJ93/ATProtoKit",
      version |-> "0.31.2"],
     [name |-> "keychain-swift", url |-> "https://github.com/evgenyneu/keychain-swift",
      version |-> "24.0.0"],
     [name |-> "AppRouter", url |-> "https://github.com/Dimillian/AppRouter.git",
      version |-> "1.0.2"],
     [name |-> "Nuke", url |-> "https://github.com/kean/Nuke",
      version |-> "12.8.0"],
     [name |-> "ViewInspector", url |-> "https://github.com/nalexn/ViewInspector",
      version |-> "0.10.1"],
     [name |-> "AcknowList", url |-> "https://github.com/vtourraine/AcknowList",
      version |-> "3.3.0"] >>

\* a uuid4 is 32 digits 0-9A-F: it contains none of the names the helper
\* looks for, each of which has a letter beyond F
get_product_name(product_uuid) == "Package"

package_reference(ref_uuid, package) ==
  PR(ref_uuid, package.name, package.url, package.version)

package_product(product_uuid, name, ref_uuid, package) ==
  [Rec("XCSwiftPackageProductDependency", product_uuid, name, "star",
       <<E("package", ref_uuid, package.name)>>)
     EXCEPT !.productName = name]

\* generate_package with the package field of a product written from the
\* product's own uuid instead of ref_uuid
generate_package_wrong_package(acc, package) ==
  LET ref_uuid == generate_uuid(acc.calls + 1)
      refs     == Append(acc.package_references, package_reference(ref_uuid, package))
  IN  IF package.name = "Nuke"
      THEN LET product1_uuid == generate_uuid(acc.calls + 2)
               product2_uuid == generate_uuid(acc.calls + 3)
           IN  [package_references   |-> refs,
                package_products     |-> acc.package_products \o
                   << package_product(product1_uuid, "Nuke", ref_uuid, package),
                      package_product(product2_uuid, "NukeUI", product2_uuid, package) >>,
                product_dependencies |-> acc.product_dependencies \o
                   <<product1_uuid, product2_uuid>>,
                calls                |-> acc.calls + 3]
      ELSE LET product_uuid == generate_uuid(acc.calls + 2)
           IN  [package_references   |-> refs,
                package_products     |-> Append(acc.package_products,
                   package_product(product_uuid, package.name, product_uuid, package)),
                product_dependencies |-> Append(acc.product_dependencies, product_uuid),
                calls                |-> acc.calls + 2]

\* one pass of `for package in packages`; acc.calls counts generate_uuid calls
generate_package(acc, package) ==
  LET ref_uuid == generate_uuid(acc.calls + 1)
      refs     == Append(acc.package_references, package_reference(ref_uuid, package))
  IN  IF package.name = "Nuke"
      THEN LET product1_uuid == generate_uuid(acc.calls + 2)
               product2_uuid == generate_uuid(acc.calls + 3)
           IN  [package_references   |-> refs,
                package_products     |-> acc.package_products \o
                   << package_product(product1_uuid, "Nuke", ref_uuid, package),
                      package_product(product2_uuid, "NukeUI", ref_uuid, package) >>,
                product_dependencies |-> acc.product_dependencies \o
                   <<product1_uuid, product2_uuid>>,
                calls                |-> acc.calls + 3]
      ELSE LET product_uuid == generate_uuid(acc.calls + 2)
           IN  [package_references   |-> refs,
                package_products     |-> Append(acc.package_products,
                   package_product(product_uuid, package.name, ref_uuid, package)),
                product_dependencies |-> Append(acc.product_dependencies, product_uuid),
                calls                |-> acc.calls + 2]

RECURSIVE generate_packages(_, _)
generate_packages(acc, k) ==
  IF k > Len(packages) THEN acc
  ELSE generate_packages(generate_package(acc, packages[k]), k + 1)

\* the three lists after the loop, when `calls` uuids were drawn before it
generate_sections(calls) ==
  generate_packages([package_references |-> <<>>, package_products |-> <<>>,
                     product_dependencies |-> <<>>, calls |-> calls], 1)

references_section(g) ==
  <<Marker("Begin XCRemoteSwiftPackageReference section")>>
    \o g.package_references
    \o <<Marker("End XCRemoteSwiftPackageReference section"),
         Marker("Begin XCSwiftPackageProductDependency section")>>
    \o g.package_products
    \o <<Marker("End XCSwiftPackageProductDependency section")>>

\* horizon_target_pattern: in the raw string, `/\\*` is a slash followed by
\* any number of backslashes, so the header it matches is written
\* `1D1A9BBD2E761986002B8F85 / Horizon / = {`; the list must be written `();`
horizon_target_pattern(r) ==
  /\ r.id = HorizonTargetId /\ r.hdr = "slash" /\ r.name = "Horizon"
  /\ r.isa = "PBXNativeTarget"
  /\ ListOf(r, "packageProductDependencies") = <<>>
  /\ r.compact

horizon_target_replacement(g) ==
  [k \in 1..Len(g.product_dependencies) |->
     E("packageProductDependencies", g.product_dependencies[k],
       get_product_name(g.product_dependencies[k]))]

\* frameworks_pattern of this script, with the same `/\\*`
mhp_frameworks_pattern(r) ==
  /\ r.id = FrameworksPhaseId /\ r.hdr = "slash" /\ r.name = "Frameworks"
  /\ HasFiles(r)
  /\ ListOf(r, "files") = <<>>
  /\ r.compact

frameworks_replacement(g) ==
  [k \in 1..Len(g.product_dependencies) |->
     E("files", g.product_dependencies[k],
       get_product_name(g.product_dependencies[k]) \o " in Frameworks")]

add_packages_to_project(d, calls) ==
  LET g   == generate_sections(calls)
      bfe == MarkerAt(d, "End PBXBuildFile section")
  IN  IF bfe # {}
      THEN LET c1 == Splice(d, {Min(bfe)}, references_section(g), 1)
               c2 == [i \in 1..Len(c1) |->
                        IF horizon_target_pattern(c1[i])
                        THEN [c1[i] EXCEPT !.refs = @ \o horizon_target_replacement(g)]
                        ELSE c1[i]]
           IN  [i \in 1..Len(c2) |->
                  IF mhp_frameworks_pattern(c2[i])
                  THEN [c2[i] EXCEPT !.refs = @ \o frameworks_replacement(g)]
                  ELSE c2[i]]
      ELSE d

(***************************************************************************)
(* The project files the scripts are run on                                *)
(***************************************************************************)
\* how the Horizon target and the build phases are written
Styles ==
  { [hdr |-> "star",  compact |-> FALSE],
    [hdr |-> "slash", compact |-> TRUE],
    [hdr |-> "slash", compact |-> FALSE] }

Options ==
  [ begin_bf : BOOLEAN, end_bf : BOOLEAN, begin_fr : BOOLEAN,
    frameworks : {"absent", "empty", "filled"},
    resources_empty : BOOLEAN, products_empty : BOOLEAN,
    shallow : BOOLEAN, style : Styles, pinned : BOOLEAN ]

Opt(b, items) == IF b THEN items ELSE <<>>

Phase(isa, id, name, o, files) ==
  [Rec(isa, id, name, o.style.hdr, files) EXCEPT !.compact = o.style.compact]

Group(id, name, hdr, o, children) ==
  [Rec("PBXGroup", id, name, hdr, children) EXCEPT !.shallow = o.shallow]

\* the package reference of a project to which Nuke was added in Xcode at an
\* earlier major version
PinnedNukeId == "1D1A9BD02E761986002B8F85"

pinned_reference ==
  PR(PinnedNukeId, "XCRemoteSwiftPackageReference \"Nuke\"",
     "https://github.com/kean/Nuke", "11.0.0")

\* a Horizon project file as Xcode lays it out: sections in alphabetical
\* order of their isa, every reference resolved
Project(o) ==
  Opt(o.begin_bf, <<Marker("Begin PBXBuildFile section")>>)
  \o << BF("1D1A9BC02E761986002B8F85", "HorizonApp.swift in Sources",
           "fileRef", "1D1A9BC12E761986002B8F85", "HorizonApp.swift") >>
  \o Opt(o.frameworks = "filled",
         << BF("1D1A9BC22E761986002B8F85", "StoreKit.framework in Frameworks",
               "fileRef", "1D1A9BC32E761986002B8F85", "StoreKit.framework") >>)
  \o Opt(~o.resources_empty,
         << BF("1D1A9BC42E761986002B8F85", "Assets.xcassets in Resources",
               "fileRef", "1D1A9BC52E761986002B8F85", "Assets.xcassets") >>)
  \o Opt(o.end_bf, <<Marker("End PBXBuildFile section")>>)
  \o Opt(o.begin_fr, <<Marker("Begin PBXFileReference section")>>)
  \o << FR("1D1A9BC12E761986002B8F85", "HorizonApp.swift") >>
  \o Opt(o.frameworks = "filled", << FR("1D1A9BC32E761986002B8F85", "StoreKit.framework") >>)
  \o Opt(~o.resources_empty, << FR("1D1A9BC52E761986002B8F85", "Assets.xcassets") >>)
  \o Opt(~o.products_empty, << FR("1D1A9BBE2E761986002B8F85", "Horizon.app") >>)
  \o Opt(o.begin_fr, <<Marker("End PBXFileReference section")>>)
  \o Opt(o.frameworks # "absent",
         << Phase("PBXFrameworksBuildPhase", FrameworksPhaseId, "Frameworks", o,
                  Opt(o.frameworks = "filled",
                      << E("files", "1D1A9BC22E761986002B8F85",
                           "StoreKit.framework in Frameworks") >>)) >>)
  \o << Group(MainGroupId, "", "none", o,
              << E("children", "1D1A9BC12E761986002B8F85", "HorizonApp.swift"),
                 E("children", "1D1A9BBF2E761986002B8F85", "Products") >>),
        Group("1D1A9BBF2E761986002B8F85", "Products", "star", o,
              Opt(~o.products_empty,
                  << E("children", "1D1A9BBE2E761986002B8F85", "Horizon.app") >>)),
        [Rec("PBXNativeTarget", HorizonTargetId, "Horizon", o.style.hdr,
             << E("buildPhases", "1D1A9BBA2E761986002B8F85", "Sources") >>
             \o Opt(o.frameworks # "absent",
                    << E("buildPhases", FrameworksPhaseId, "Frameworks") >>)
             \o << E("buildPhases", "1D1A9BBC2E761986002B8F85", "Resources") >>)
           EXCEPT !.compact = o.style.compact],
        Rec("PBXProject", ProjectObjectId, "Project object", "star",
            << E("mainGroup", MainGroupId, "") >>
            \o Opt(o.pinned,
                   << E("packageReferences", PinnedNukeId,
                        "XCRemoteSwiftPackageReference \"Nuke\"") >>)
            \o << E("productRefGroup", "1D1A9BBF2E761986002B8F85", "Products"),
                  E("targets", HorizonTargetId, "Horizon") >>),
        Phase("PBXResourcesBuildPhase", "1D1A9BBC2E761986002B8F85", "Resources", o,
              Opt(~o.resources_empty,
                  << E("files", "1D1A9BC42E761986002B8F85",
                       "Assets.xcassets in Resources") >>)),
        Phase("PBXSourcesBuildPhase", "1D1A9BBA2E761986002B8F85", "Sources", o,
              << E("files", "1D1A9BC02E761986002B8F85", "HorizonApp.swift in Sources") >>) >>
  \o Opt(o.pinned,
         << Marker("Begin XCRemoteSwiftPackageReference section"),
            pinned_reference,
            Marker("End XCRemoteSwiftPackageReference section") >>)
  \o << Rec("rootObject", "", "", "none",
            << E("rootObject", ProjectObjectId, "Project object") >>) >>

no_sections ==
  [package_references |-> <<>>, package_products |-> <<>>,
   product_dependencies |-> <<>>, calls |-> 0]

(***************************************************************************)
(* Runs of the three scripts on one project file                           *)
(***************************************************************************)
InitIdleFix ==
  /\ swift_files = <<>> /\ swift_files0 = <<>> /\ todo = {}
  /\ files_processed = 0 /\ imports_removed = 0 /\ files_written = {}
  /\ fix_pc = "idle" /\ fix_runs = 0

InitIdlePackages == attempts = <<>> /\ package_pc = "idle"

InitIdleAux == InitIdleFix /\ InitIdlePackages

InitIdleStep ==
  /\ pc = "idle" /\ script = "" /\ to_write = <<>>
  /\ disk = <<>>
  /\ returned = {} /\ uuid = ""

InitIdleGen ==
  /\ gen_pc = "idle"
  /\ app_files = <<>> /\ features_files = <<>> /\ model_files = <<>>
  /\ pbxproj_content = <<>>

Init ==
  /\ InitIdleAux
  /\ \E o \in Options : content = Project(o)
  /\ content0 = content
  /\ prev = content
  /\ hist = <<>>
  /\ uuid_calls = 0
  /\ generated = no_sections
  /\ InitIdleGen
  /\ InitIdleStep

\* read the file, run the script body, write the file
RunAddFrameworkDependencies ==
  /\ Len(hist) < MaxRuns
  /\ content' = add_framework_dependencies(content)
  /\ prev' = content
  /\ hist' = Append(hist, "add_framework_dependencies")
  /\ UNCHANGED <<content0, uuid_calls, generated>>
  /\ UNCHANGED gen_vars
  /\ UNCHANGED aux_vars
  /\ UNCHANGED step_vars

RunCompleteFrameworkFix ==
  /\ Len(hist) < MaxRuns
  /\ content' = complete_framework_fix(content)
  /\ prev' = content
  /\ hist' = Append(hist, "complete_framework_fix")
  /\ UNCHANGED <<content0, uuid_calls, generated>>
  /\ UNCHANGED gen_vars
  /\ UNCHANGED aux_vars
  /\ UNCHANGED step_vars

RunAddPackagesToProject ==
  /\ Len(hist) < MaxRuns
  /\ content' = add_packages_to_project(content, uuid_calls)
  /\ generated' = generate_sections(uuid_calls)
  /\ uuid_calls' = generate_sections(uuid_calls).calls
  /\ prev' = content
  /\ hist' = Append(hist, "add_packages_to_project")
  /\ UNCHANGED content0
  /\ UNCHANGED gen_vars
  /\ UNCHANGED aux_vars
  /\ UNCHANGED step_vars

Next ==
  \/ RunAddFrameworkDependencies
  \/ RunCompleteFrameworkFix
  \/ RunAddPackagesToProject

Spec == Init /\ [][Next]_vars

(***************************************************************************)
(* convert_to_xcodeproj.py                                                 *)
(***************************************************************************)
cps_generate_uuid(n) == "UUID4-" \o ToString(n)

feature_dirs ==
  << "AuthUI", "ChatUI", "ComposerUI", "DesignSystem", "FeedUI", "MediaUI",
     "NotificationsUI", "PostUI", "ProfileUI", "SettingsUI" >>

model_dirs == << "Auth", "Client", "Destinations", "Models", "User" >>

CpsGroup(id, name, hdr, children) == Rec("PBXGroup", id, name, hdr, children)

CpsConfig(id, name) == Rec("XCBuildConfiguration", id, name, "star", <<>>)

\* the document create_project_structure returns for the three lists of
\* discovered files (each file given by its basename); generate_uuid is
\* called in the order the statements and the f-string fields are evaluated
create_project_structure(app, features, model) ==
  LET all_files == app \o features \o model
      n     == Len(all_files)
      U(k)  == cps_generate_uuid(k)
      project_uuid     == U(1)
      main_target_uuid == U(2)
      file_uuid(i)     == U(2 + i)
      build_files == [i \in 1..n |->
        BF(file_uuid(i), all_files[i] \o " in Sources",
           "fileRef", file_uuid(i), all_files[i])]
      file_refs == [i \in 1..n |-> FR(file_uuid(i), all_files[i])]
      g == 2 + n
      app_group_uuid        == U(g + 1)
      features_group_uuid   == U(g + 2)
      model_group_uuid      == U(g + 3)
      app_source_group_uuid == U(g + 4)
      groups ==
        << CpsGroup(app_group_uuid, "LiquidSky", "star",
             << E("children", features_group_uuid, "Features"),
                E("children", model_group_uuid, "Model"),
                E("children", app_source_group_uuid, "App Source") >>),
           CpsGroup(features_group_uuid, "Features", "star",
             [k \in 1..Len(feature_dirs) |->
                E("children", U(g + 4 + k), feature_dirs[k])]),
           CpsGroup(model_group_uuid, "Model", "star",
             [k \in 1..Len(model_dirs) |->
                E("children", U(g + 4 + Len(feature_dirs) + k), model_dirs[k])]),
           CpsGroup(app_source_group_uuid, "App Source", "star",
             [i \in 1..Len(app) |->
                E("children", U(g + 4 + Len(feature_dirs) + Len(model_dirs) + i),
                  app[i])]) >>
      s == g + 4 + Len(feature_dirs) + Len(model_dirs) + Len(app)
      sources_files == [i \in 1..n |->
        E("files", U(s + i), all_files[i] \o " in Sources")]
      t == s + n
  IN  << Marker("Begin PBXBuildFile section") >> \o build_files
      \o << Marker("End PBXBuildFile section"),
            Marker("Begin PBXFileReference section") >> \o file_refs
      \o << Marker("End PBXFileReference section"),
            Marker("Begin PBXFrameworksBuildPhase section"),
            Rec("PBXFrameworksBuildPhase", U(t + 1), "Frameworks", "star", <<>>),
            Marker("End PBXFrameworksBuildPhase section"),
            Marker("Begin PBXGroup section"),
            CpsGroup(U(t + 2), "", "none",
              << E("children", app_group_uuid, "LiquidSky"),
                 E("children", U(t + 3), "Products") >>),
            CpsGroup(U(t + 4), "Products", "star",
              << E("children", main_target_uuid, "LiquidSky.app") >>) >>
      \o groups
      \o << Marker("End PBXGroup section"),
            Marker("Begin PBXNativeTarget section"),
            Rec("PBXNativeTarget", main_target_uuid, "LiquidSky", "star",
              << E("buildConfigurationList", U(t + 5),
                   "Build configuration list for PBXNativeTarget \"LiquidSky\""),
                 E("buildPhases", U(t + 6), "Sources"),
                 E("buildPhases", U(t + 7), "Frameworks"),
                 E("buildPhases", U(t + 8), "Resources"),
                 E("productReference", main_target_uuid, "LiquidSky.app") >>),
            Marker("End PBXNativeTarget section"),
            Marker("Begin PBXProject section"),
            Rec("PBXProject", project_uuid, "Project object", "star",
              << E("TargetAttributes", main_target_uuid, ""),
                 E("buildConfigurationList", U(t + 9),
                   "Build configuration list for PBXProject \"LiquidSky\""),
                 E("mainGroup", U(t + 10), ""),
                 E("productRefGroup", U(t + 11), "Products"),
                 E("targets", main_target_uuid, "LiquidSky") >>),
            Marker("End PBXProject section"),
            Marker("Begin PBXResourcesBuildPhase section"),
            Rec("PBXResourcesBuildPhase", U(t + 12), "Resources", "star", <<>>),
            Marker("End PBXResourcesBuildPhase section"),
            Marker("Begin PBXSourcesBuildPhase section"),
            Rec("PBXSourcesBuildPhase", U(t + 13), "Sources", "star", sources_files),
            Marker("End PBXSourcesBuildPhase section"),
            Marker("Begin XCBuildConfiguration section"),
            CpsConfig(U(t + 14), "Debug"),
            CpsConfig(U(t + 15), "Release"),
            CpsConfig(U(t + 16), "Debug"),
            CpsConfig(U(t + 17), "Release"),
            Marker("End XCBuildConfiguration section"),
            Marker("Begin XCConfigurationList section"),
            Rec("XCConfigurationList", U(t + 18),
                "Build configuration list for PBXProject \"LiquidSky\"", "star",
              << E("buildConfigurations", U(t + 19), "Debug"),
                 E("buildConfigurations", U(t + 20), "Release") >>),
            Rec("XCConfigurationList", U(t + 21),
                "Build configuration list for PBXNativeTarget \"LiquidSky\"", "star",
              << E("buildConfigurations", U(t + 22), "Debug"),
                 E("buildConfigurations", U(t + 23), "Release") >>),
            Marker("End XCConfigurationList section"),
            Rec("rootObject", "", "", "none",
              << E("rootObject", project_uuid, "Project object") >>) >>

(***************************************************************************)
(* One run of convert_to_xcodeproj.py over a source tree                   *)
(***************************************************************************)
\* basenames of the Swift files find_swift_files can return
SwiftFiles == {"LiquidSkyApp.swift", "FeedView.swift", "User.swift"}

\* the lists a directory walk can return: no path twice
FileLists ==
  {fs \in UNION {[1..m -> SwiftFiles] : m \in 0..MaxFiles} :
     \A i, j \in 1..Len(fs) : i # j => fs[i] # fs[j]}

InitIdleMut ==
  /\ content = <<>> /\ content0 = <<>> /\ prev = <<>>
  /\ hist = <<>>
  /\ uuid_calls = 0
  /\ generated = no_sections

InitCreate ==
  /\ InitIdleAux
  /\ gen_pc = "start"
  /\ app_files \in FileLists
  /\ features_files \in FileLists
  /\ model_files \in FileLists
  /\ pbxproj_content = <<>>
  /\ InitIdleMut
  /\ InitIdleStep

CreateProjectStructure ==
  /\ gen_pc = "start"
  /\ pbxproj_content' = create_project_structure(app_files, features_files, model_files)
  /\ gen_pc' = "done"
  /\ UNCHANGED <<app_files, features_files, model_files>>
  /\ UNCHANGED mut_vars
  /\ UNCHANGED step_vars
  /\ UNCHANGED aux_vars

NextCreate == CreateProjectStructure

SpecCreate == InitCreate /\ [][NextCreate]_vars

(***************************************************************************)
(* Properties                                                              *)
(***************************************************************************)
Records(d) == {i \in 1..Len(d) : IsRecord(d[i])}

DefinedIds(d) == {d[i].id : i \in Records(d)}

RecordsOf(d, isa) == {i \in 1..Len(d) : d[i].isa = isa}

LastRun == IF hist = <<>> THEN "none" ELSE hist[Len(hist)]

LastTwoRuns(op) ==
  Len(hist) >= 2 /\ hist[Len(hist)] = op /\ hist[Len(hist) - 1] = op

\* the identifiers 1D6000xx that the scripts write
ScriptIds ==
  Range(Ids(replace_frameworks))
    \cup {buildfile_entries[k].id : k \in 1..Len(buildfile_entries)}
    \cup {buildfile_entries[k].refs[1].id : k \in 1..Len(buildfile_entries)}
    \cup {fileref_entries[k].id : k \in 1..Len(fileref_entries)}
    \cup {package_refs[k].id : k \in 1..Len(package_refs)}
    \cup {product_refs[k].id : k \in 1..Len(product_refs)}
    \cup {ProductsGroupId}

ReferencePositions == {"files", "fileRef", "productRef", "children", "package"}

ReferentialIntegrity(d) ==
  \A i \in 1..Len(d) : \A k \in 1..Len(d[i].refs) :
    d[i].refs[k].f \in ReferencePositions => d[i].refs[k].id \in DefinedIds(d)

\* C1: from a document in which every referenced identifier is defined,
\* after any sequence of runs of the three scripts every identifier in a
\* reference position (files, fileRef, productRef, children, package) is the
\* identifier of a record of the document.
C1_ReferentialIntegrity ==
  ReferentialIntegrity(content0) => ReferentialIntegrity(content)

SystemFrameworks ==
  {"UIKit.framework", "Foundation.framework", "SwiftUI.framework",
   "Combine.framework", "CoreData.framework"}

\* the Frameworks build phase is written as Xcode writes it, with no entry
EmptyFrameworksPhase(d) ==
  \E i \in 1..Len(d) :
    /\ d[i].id = FrameworksPhaseId /\ d[i].isa = "PBXFrameworksBuildPhase"
    /\ d[i].hdr = "star" /\ d[i].name = "Frameworks"
    /\ ListOf(d[i], "files") = <<>>

C2_Start(d) ==
  /\ MarkerAt(d, "Begin PBXBuildFile section") # {}
  /\ MarkerAt(d, "Begin PBXFileReference section") # {}
  /\ \A id \in ScriptIds : ~IdInContent(d, id)
  /\ EmptyFrameworksPhase(d)

FrameworksPhaseFiles(d) ==
  LET ps == {i \in 1..Len(d) : d[i].id = FrameworksPhaseId /\ HasFiles(d[i])}
  IN  IF ps = {} THEN <<>> ELSE Ids(ListOf(d[Min(ps)], "files"))

Occurrences(seq, x) == Cardinality({k \in 1..Len(seq) : seq[k] = x})

FrameworkLinkedOnce(d, fw) ==
  LET frs == {i \in RecordsOf(d, "PBXFileReference") : d[i].name = fw}
  IN  /\ Cardinality(frs) = 1
      /\ \A i \in frs :
           LET bfs == {j \in RecordsOf(d, "PBXBuildFile") :
                         \E k \in 1..Len(d[j].refs) :
                           d[j].refs[k].f = "fileRef" /\ d[j].refs[k].id = d[i].id}
           IN  /\ Cardinality(bfs) = 1
               /\ \A j \in bfs : Occurrences(FrameworksPhaseFiles(d), d[j].id) = 1

\* C2: from a document with both Begin markers, none of the 1D6000xx
\* identifiers and an empty Frameworks phase, once complete_framework_fix and
\* add_framework_dependencies have both run (either order), each of the five
\* system frameworks has exactly one PBXFileReference, exactly one
\* PBXBuildFile wrapping it, and that build file exactly once in the
\* Frameworks phase.
C2_FrameworksLinked ==
  ( /\ C2_Start(content0)
    /\ hist \in { <<"add_framework_dependencies", "complete_framework_fix">>,
                  <<"complete_framework_fix", "add_framework_dependencies">> } )
  => \A fw \in SystemFrameworks : FrameworkLinkedOnce(content, fw)

\* C3: a second run of add_framework_dependencies right after a first one
\* changes nothing.
C3_AddFrameworksIdempotent ==
  LastTwoRuns("add_framework_dependencies") => content = prev

PackageReferencesFor(d, url) ==
  {i \in RecordsOf(d, "XCRemoteSwiftPackageReference") : d[i].repositoryURL = url}

ProductDependenciesFor(d, product) ==
  {i \in RecordsOf(d, "XCSwiftPackageProductDependency") : d[i].productName = product}

ProductsOf(package) ==
  IF package.name = "Nuke" THEN {"Nuke", "NukeUI"} ELSE {package.name}

\* C4: a second run of add_packages_to_project on its own output leaves,
\* for every package and product of the list, the number of
\* XCRemoteSwiftPackageReference and XCSwiftPackageProductDependency records
\* as the first run left it.
C4_AddPackagesIdempotent ==
  LastTwoRuns("add_packages_to_project") =>
    \A p \in 1..Len(packages) :
      /\ Cardinality(PackageReferencesFor(content, packages[p].url))
           = Cardinality(PackageReferencesFor(prev, packages[p].url))
      /\ \A product \in ProductsOf(packages[p]) :
           Cardinality(ProductDependenciesFor(content, product))
             = Cardinality(ProductDependenciesFor(prev, product))

\* C5: after complete_framework_fix has inserted its package references into
\* a document that held no XCRemoteSwiftPackageReference, no two
\* package-reference records have the same repositoryURL.
C5_OneReferencePerUrl ==
  ( /\ LastRun = "complete_framework_fix"
    /\ ~IsaInContent(prev, "XCRemoteSwiftPackageReference")
    /\ RecordsOf(content, "XCRemoteSwiftPackageReference") # {} )
  => \A i, j \in RecordsOf(content, "XCRemoteSwiftPackageReference") :
       i # j => content[i].repositoryURL # content[j].repositoryURL

all_files == app_files \o features_files \o model_files

\* C6: no two records of the document create_project_structure returns are
\* defined under the same identifier (generate_uuid never repeats a value).
C6_UniqueIdentifiers ==
  gen_pc = "done" =>
    \A i, j \in Records(pbxproj_content) :
      i # j => pbxproj_content[i].id # pbxproj_content[j].id

FilesOf(d, isa) ==
  UNION {Range(Ids(ListOf(d[i], "files"))) : i \in RecordsOf(d, isa)}

ChildrenOfGroups(d) ==
  UNION {Range(Ids(ListOf(d[i], "children"))) : i \in RecordsOf(d, "PBXGroup")}

SourceFileLinked(d, file) ==
  LET frs == {i \in RecordsOf(d, "PBXFileReference") : d[i].name = file}
  IN  /\ Cardinality(frs) = Occurrences(all_files, file)
      /\ \A i \in frs :
           LET bfs == {j \in RecordsOf(d, "PBXBuildFile") :
                         \E k \in 1..Len(d[j].refs) :
                           d[j].refs[k].f = "fileRef" /\ d[j].refs[k].id = d[i].id}
           IN  /\ Cardinality(bfs) = 1
               /\ d[i].id \in ChildrenOfGroups(d)
               /\ \A j \in bfs : d[j].id \in FilesOf(d, "PBXSourcesBuildPhase")

\* C7: for every discovered Swift file the document of
\* create_project_structure has exactly one PBXFileReference for it, exactly
\* one PBXBuildFile whose fileRef is that reference, the reference in the
\* children of some PBXGroup and the build file in the files of the
\* PBXSourcesBuildPhase.
C7_SourceFilesLinked ==
  gen_pc = "done" =>
    \A file \in Range(all_files) : SourceFileLinked(pbxproj_content, file)

BuildPhases(d) == {i \in 1..Len(d) : HasFiles(d[i])}

\* C8: after any number of successive runs of add_framework_dependencies on
\* a document with several build phases, each build-file identifier it
\* writes into a files list occurs in the files list of exactly one build
\* phase, the Frameworks phase, and there once.
C8_OnlyInFrameworksPhase ==
  ( /\ hist # <<>>
    /\ \A k \in 1..Len(hist) : hist[k] = "add_framework_dependencies"
    /\ Cardinality(BuildPhases(content0)) >= 2 )
  => \A id \in Range(Ids(replace_frameworks)) :
       \A i \in BuildPhases(content) :
         LET n == Occurrences(Ids(ListOf(content[i], "files")), id)
         IN  IF content[i].id = FrameworksPhaseId THEN n <= 1 ELSE n = 0

\* the document add_packages_to_project is written for: the End PBXBuildFile
\* marker, the Horizon target `1D1A9BBD2E761986002B8F85 /* Horizon */` with
\* no package product dependency, the Frameworks phase with no file
C9_WellFormed(d) ==
  /\ MarkerAt(d, "End PBXBuildFile section") # {}
  /\ \E i \in 1..Len(d) :
       /\ d[i].id = HorizonTargetId /\ d[i].isa = "PBXNativeTarget"
       /\ d[i].hdr = "star" /\ d[i].name = "Horizon"
       /\ ListOf(d[i], "packageProductDependencies") = <<>>
  /\ EmptyFrameworksPhase(d)

TargetDependencies(d) ==
  UNION {Range(Ids(ListOf(d[i], "packageProductDependencies"))) :
           i \in {j \in 1..Len(d) : d[j].id = HorizonTargetId}}

\* C9: after add_packages_to_project runs on such a document, every
\* XCSwiftPackageProductDependency record it created is in the target's
\* packageProductDependencies and is the productRef of a PBXBuildFile whose
\* identifier is in the Frameworks phase's files.
C9_ProductsRegistered ==
  ( /\ LastRun = "add_packages_to_project"
    /\ C9_WellFormed(prev) )
  => \A k \in 1..Len(generated.package_products) :
       LET product == generated.package_products[k].id
       IN  /\ product \in TargetDependencies(content)
           /\ \E j \in RecordsOf(content, "PBXBuildFile") :
                /\ \E e \in Range(content[j].refs) :
                     e.f = "productRef" /\ e.id = product
                /\ Occurrences(FrameworksPhaseFiles(content), content[j].id) >= 1

GeneratedReferencesFor(package) ==
  {i \in 1..Len(generated.package_references) :
     /\ generated.package_references[i].isa = "XCRemoteSwiftPackageReference"
     /\ generated.package_references[i].repositoryURL = package.url
     /\ generated.package_references[i].minimumVersion = package.version}

GeneratedProductsFor(product) ==
  {j \in 1..Len(generated.package_products) :
     /\ generated.package_products[j].isa = "XCSwiftPackageProductDependency"
     /\ generated.package_products[j].productName = product}

\* C10: one run of add_packages_to_project generates, for every package of
\* the list, exactly one XCRemoteSwiftPackageReference record and, for each
\* product of the package (Nuke and NukeUI for Nuke, one product otherwise),
\* exactly one XCSwiftPackageProductDependency record, whose package field
\* is the identifier of that package's reference record.
C10_OneReferenceAndProducts ==
  LastRun = "add_packages_to_project" =>
    \A p \in 1..Len(packages) :
      /\ Cardinality(GeneratedReferencesFor(packages[p])) = 1
      /\ \A product \in ProductsOf(packages[p]) :
           /\ Cardinality(GeneratedProductsFor(product)) = 1
           /\ \A j \in GeneratedProductsFor(product) :
                \A i \in GeneratedReferencesFor(packages[p]) :
                  Ids(ListOf(generated.package_products[j], "package"))
                    = <<generated.package_references[i].id>>

\* a second run has generated the records of the six packages, the two
\* products of Nuke among them, next to the records of the first run
C10_Witness ==
  /\ LastTwoRuns("add_packages_to_project")
  /\ Len(generated.package_references) = Len(packages)
  /\ GeneratedProductsFor("NukeUI") # {}
  /\ Cardinality(ProductDependenciesFor(content, "NukeUI")) = 2

\* the document holds a package reference for a URL of the list with a
\* minimumVersion other than the one the script supplies for that URL
ConflictingRequirement(d) ==
  \E p \in 1..Len(packages) :
    \E i \in PackageReferencesFor(d, packages[p].url) :
      d[i].minimumVersion # packages[p].version

\* C11: when the document read by add_packages_to_project already holds an
\* XCRemoteSwiftPackageReference for one of the URLs with a different
\* minimumVersion, the run fails and the document is left exactly as it was.
C11_ConflictLeavesDocument ==
  ( /\ LastRun = "add_packages_to_project"
    /\ ConflictingRequirement(prev) )
  => content = prev

\* every record of `entries` is defined in the document
EntriesPresent(d, entries) ==
  \A k \in 1..Len(entries) :
    \E i \in Records(d) : d[i].id = entries[k].id /\ d[i].isa = entries[k].isa

\* C12: complete_framework_fix is all-or-nothing: after a run either the
\* PBXBuildFile entries, the PBXFileReference entries, the package references
\* and the product references are all in the document, or the document is
\* the one that was read.
C12_AllOrNothing ==
  LastRun = "complete_framework_fix" =>
    \/ content = prev
    \/ /\ EntriesPresent(content, buildfile_entries)
       /\ EntriesPresent(content, fileref_entries)
       /\ EntriesPresent(content, package_refs)
       /\ EntriesPresent(content, product_refs)

(***************************************************************************)
(* One run of a script, statement by statement, that can be interrupted    *)
(***************************************************************************)
Scripts ==
  {"add_framework_dependencies", "complete_framework_fix", "add_packages_to_project"}

\* the text script s computes from the text d it has read
script_body(s, d) ==
  CASE s = "add_framework_dependencies" -> add_framework_dependencies(d)
    [] s = "complete_framework_fix"     -> complete_framework_fix(d)
    [] s = "add_packages_to_project"    -> add_packages_to_project(d, 0)

\* the project files of the interrupted runs: all three section markers,
\* the Frameworks phase and the styles as in Options
WriteOptions ==
  {o \in Options : /\ o.begin_bf /\ o.end_bf /\ o.begin_fr
                   /\ o.resources_empty /\ o.products_empty /\ ~o.pinned}

\* `content` is the text of project.pbxproj in the file system
InitWrite ==
  /\ InitIdleAux
  /\ \E o \in WriteOptions : content = Project(o)
  /\ content0 = content
  /\ prev = content
  /\ hist = <<>>
  /\ uuid_calls = 0
  /\ generated = no_sections
  /\ InitIdleGen
  /\ pc = "start"
  /\ script \in Scripts
  /\ to_write = <<>>
  /\ disk = <<>>
  /\ returned = {} /\ uuid = ""

\* `with open(path, 'r') as f: content = f.read()` and the script body
ReadAndCompute ==
  /\ pc = "start"
  /\ to_write' = script_body(script, content)
  /\ pc' = "computed"
  /\ UNCHANGED <<script, disk, returned, uuid>>
  /\ UNCHANGED mut_vars
  /\ UNCHANGED gen_vars
  /\ UNCHANGED aux_vars

\* `open(path, 'w')`: the file is truncated when it is opened
OpenForWriting ==
  /\ pc = "computed"
  /\ content' = <<>>
  /\ pc' = "opened"
  /\ UNCHANGED <<content0, prev, hist, uuid_calls, generated>>
  /\ UNCHANGED <<script, to_write, disk, returned, uuid>>
  /\ UNCHANGED gen_vars
  /\ UNCHANGED aux_vars

\* `f.write(new_content)`: the buffered text reaches the file part by part
WritePart ==
  /\ pc = "opened"
  /\ \E n \in (Len(content) + 1)..(Len(to_write) - 1) :
       content' = SubSeq(to_write, 1, n)
  /\ UNCHANGED <<content0, prev, hist, uuid_calls, generated>>
  /\ UNCHANGED step_vars
  /\ UNCHANGED gen_vars
  /\ UNCHANGED aux_vars

\* leaving the `with` block flushes the rest of the text and closes the file
CloseFile ==
  /\ pc = "opened"
  /\ content' = to_write
  /\ prev' = content0
  /\ hist' = Append(hist, script)
  /\ pc' = "closed"
  /\ UNCHANGED <<content0, uuid_calls, generated>>
  /\ UNCHANGED <<script, to_write, disk, returned, uuid>>
  /\ UNCHANGED gen_vars
  /\ UNCHANGED aux_vars

\* the process is killed, or a read or write raises: no statement of the
\* scripts handles either, so the run ends where it is
Interrupt ==
  /\ pc \in {"start", "computed", "opened"}
  /\ pc' = "interrupted"
  /\ UNCHANGED <<script, to_write, disk, returned, uuid>>
  /\ UNCHANGED mut_vars
  /\ UNCHANGED gen_vars
  /\ UNCHANGED aux_vars

NextWrite ==
  \/ ReadAndCompute
  \/ OpenForWriting
  \/ WritePart
  \/ CloseFile
  \/ Interrupt

SpecWrite == InitWrite /\ [][NextWrite]_vars

\* C13: wherever a run of one of the three scripts is interrupted, the
\* project file holds the complete original text or the complete new text,
\* never an empty text or a prefix of the new text.
C13_OriginalOrNew ==
  pc = "interrupted" =>
    \/ content = content0
    \/ content = script_body(script, content0)

(***************************************************************************)
(* The calls of generate_uuid during one run of add_packages_to_project    *)
(***************************************************************************)
\* number of values uuid.uuid4() draws from
MaxUuid == 3

\* uuid.uuid4() is a random draw: any value can come out at any call
uuid4 == {generate_uuid(n) : n \in 1..MaxUuid}

\* generate_uuid is called this often by the loop over `packages`
calls_per_run == generate_sections(0).calls

\* the project file is one Xcode wrote, or one an earlier run of the script
\* has already added its records to
InitUuid ==
  /\ InitIdleAux
  /\ \E o \in WriteOptions :
       content \in {Project(o), add_packages_to_project(Project(o), 0)}
  /\ content0 = content
  /\ prev = content
  /\ hist = <<>>
  /\ uuid_calls = 0
  /\ generated = no_sections
  /\ InitIdleGen
  /\ pc = "loop"
  /\ script = "add_packages_to_project"
  /\ to_write = <<>>
  /\ disk = <<>>
  /\ returned = {} /\ uuid = ""

\* one call of generate_uuid; `returned` holds the values of the earlier calls
GenerateUuid ==
  /\ pc = "loop"
  /\ uuid_calls < calls_per_run
  /\ uuid' \in uuid4
  /\ returned' = IF uuid_calls = 0 THEN {} ELSE returned \cup {uuid}
  /\ uuid_calls' = uuid_calls + 1
  /\ UNCHANGED <<content, content0, prev, hist, generated>>
  /\ UNCHANGED <<pc, script, to_write, disk>>
  /\ UNCHANGED gen_vars
  /\ UNCHANGED aux_vars

NextUuid == GenerateUuid

SpecUuid == InitUuid /\ [][NextUuid]_vars

NoDuplicates(seq) == \A a, b \in 1..Len(seq) : a # b => seq[a] # seq[b]

NoDuplicateFiles(d) ==
  \A i \in BuildPhases(d) : NoDuplicates(Ids(ListOf(d[i], "files")))

OnlyRuns(op) == hist # <<>> /\ \A k \in 1..Len(hist) : hist[k] = op

\* the entries the files list of a build phase had in `before` are in the
\* list of that phase in `after`, in the same order
FilesKeepOrder(before, after) ==
  \A i \in BuildPhases(before) : \A j \in BuildPhases(after) :
    before[i].id = after[j].id =>
      LET old == Ids(ListOf(before[i], "files"))
      IN  SelectSeq(Ids(ListOf(after[j], "files")), LAMBDA x : x \in Range(old)) = old

\* C15: from a document in which no files list holds an identifier twice,
\* after any number of runs of add_framework_dependencies no files list of a
\* build phase holds an identifier twice, and the entries a list had before
\* a run are still in it in the same relative order.
C15_FilesListsOrdered ==
  ( /\ OnlyRuns("add_framework_dependencies")
    /\ NoDuplicateFiles(content0) )
  => /\ NoDuplicateFiles(content)
     /\ FilesKeepOrder(prev, content)

\* a second run has filled the files list of another phase while the
\* Frameworks phase keeps the twelve entries the first run wrote
C15_Witness ==
  /\ LastTwoRuns("add_framework_dependencies")
  /\ NoDuplicateFiles(content0)
  /\ content # prev
  /\ Len(FrameworksPhaseFiles(prev)) = Len(replace_frameworks)
  /\ \E i \in BuildPhases(content) :
       /\ content[i].id # FrameworksPhaseId
       /\ Ids(ListOf(content[i], "files")) = Ids(replace_frameworks)

\* the identifiers 1D60000A22D4FAF6008BF43F .. 1D60001A22D4FAF6008BF43F
HardCodedIds ==
  {fileref_entries[k].id : k \in 1..Len(fileref_entries)}
    \cup {buildfile_entries[k].id : k \in 1..Len(buildfile_entries)}

\* the records of the PBXBuildFile and PBXFileReference sections under id
DefinitionsOf(d, id) ==
  {i \in Records(d) : d[i].id = id /\ d[i].isa \in {"PBXBuildFile", "PBXFileReference"}}

UniqueRecordIds(d) == \A i, j \in Records(d) : i # j => d[i].id # d[j].id

MarkersOnce(d) ==
  \A i, j \in 1..Len(d) :
    (d[i].isa = "marker" /\ d[j].isa = "marker" /\ d[i].name = d[j].name) => i = j

FrameworkRunsOnly ==
  \A k \in 1..Len(hist) :
    hist[k] \in {"add_framework_dependencies", "complete_framework_fix"}

SectionKinds == {"PBXBuildFile", "PBXFileReference"}

\* the records of section `isa` that the last run added: their identifier
\* was not defined in that section before the run
AddedRecords(isa) ==
  {i \in RecordsOf(content, isa) : \A j \in RecordsOf(prev, isa) : prev[j].id # content[i].id}

\* the records of section `isa` that were in it before the last run
KeptRecords(isa) ==
  {i \in RecordsOf(content, isa) : \E j \in RecordsOf(prev, isa) : prev[j].id = content[i].id}

\* C17: every record that add_framework_dependencies or
\* complete_framework_fix adds to the PBXBuildFile or PBXFileReference
\* section is placed after all records that were already in that section.
C17_AddedRecordsLast ==
  LastRun \in {"add_framework_dependencies", "complete_framework_fix"} =>
    \A isa \in SectionKinds :
      \A i \in AddedRecords(isa) : \A j \in KeptRecords(isa) : j < i

(***************************************************************************)
(* create_minimal_project.py                                               *)
(***************************************************************************)
\* minimal_build_files with the build file defined under another identifier
minimal_build_files_renumbered ==
  << BF("A1000002294A1234001A2B3C4", "LiquidSkyApp.swift in Sources",
        "fileRef", "A1000000294A1234001A2B3C4", "LiquidSkyApp.swift") >>

minimal_build_files ==
  << BF("A1000001294A1234001A2B3C4", "LiquidSkyApp.swift in Sources",
        "fileRef", "A1000000294A1234001A2B3C4", "LiquidSkyApp.swift") >>

minimal_file_references ==
  << FR("A0FFFDFF294A1234001A2B3C4", "LiquidSky.app"),
     FR("A1000000294A1234001A2B3C4", "LiquidSkyApp.swift") >>

minimal_groups ==
  << Rec("PBXGroup", "A0FFFDF6294A1234001A2B3C4", "", "none",
         << E("children", "A0FFFE01294A1234001A2B3C4", "LiquidSky"),
            E("children", "A0FFFE00294A1234001A2B3C4", "Products") >>),
     Rec("PBXGroup", "A0FFFE00294A1234001A2B3C4", "Products", "star",
         << E("children", "A0FFFDFF294A1234001A2B3C4", "LiquidSky.app") >>),
     Rec("PBXGroup", "A0FFFE01294A1234001A2B3C4", "LiquidSky", "star",
         << E("children", "A1000000294A1234001A2B3C4", "LiquidSkyApp.swift") >>) >>

minimal_native_target ==
  Rec("PBXNativeTarget", "A0FFFDFE294A1234001A2B3C4", "LiquidSky", "star",
      << E("buildConfigurationList", "A100000C294A1234001A2B3C4",
           "Build configuration list for PBXNativeTarget \"LiquidSky\""),
         E("buildPhases", "A0FFFDFB294A1234001A2B3C4", "Sources"),
         E("buildPhases", "A0FFFDFC294A1234001A2B3C4", "Frameworks"),
         E("buildPhases", "A0FFFDFD294A1234001A2B3C4", "Resources"),
         E("productReference", "A0FFFDFF294A1234001A2B3C4", "LiquidSky.app") >>)

\* minimal_project with the project record defined under another identifier
minimal_project_renumbered ==
  Rec("PBXProject", "A0FFFDF9294A1234001A2B3C4", "Project object", "star",
      << E("TargetAttributes", "A0FFFDFF294A1234001A2B3C4", ""),
         E("buildConfigurationList", "A0FFFDF8294A1234001A2B3C4",
           "Build configuration list for PBXProject \"LiquidSky\""),
         E("mainGroup", "A0FFFDF6294A1234001A2B3C4", ""),
         E("productRefGroup", "A0FFFE00294A1234001A2B3C4", "Products"),
         E("targets", "A0FFFDFF294A1234001A2B3C4", "LiquidSky") >>)

minimal_project ==
  Rec("PBXProject", "A0FFFDF7294A1234001A2B3C4", "Project object", "star",
      << E("TargetAttributes", "A0FFFDFF294A1234001A2B3C4", ""),
         E("buildConfigurationList", "A0FFFDF8294A1234001A2B3C4",
           "Build configuration list for PBXProject \"LiquidSky\""),
         E("mainGroup", "A0FFFDF6294A1234001A2B3C4", ""),
         E("productRefGroup", "A0FFFE00294A1234001A2B3C4", "Products"),
         E("targets", "A0FFFDFF294A1234001A2B3C4", "LiquidSky") >>)

minimal_configurations ==
  << Rec("XCBuildConfiguration", "A100000A294A1234001A2B3C4", "Debug", "star", <<>>),
     Rec("XCBuildConfiguration", "A100000B294A1234001A2B3C4", "Release", "star", <<>>),
     Rec("XCBuildConfiguration", "A100000D294A1234001A2B3C4", "Debug", "star", <<>>),
     Rec("XCBuildConfiguration", "A100000E294A1234001A2B3C4", "Release", "star", <<>>) >>

minimal_configuration_lists ==
  << Rec("XCConfigurationList", "A0FFFDF8294A1234001A2B3C4",
         "Build configuration list for PBXProject \"LiquidSky\"", "star",
         << E("buildConfigurations", "A100000A294A1234001A2B3C4", "Debug"),
            E("buildConfigurations", "A100000B294A1234001A2B3C4", "Release") >>),
     Rec("XCConfigurationList", "A100000C294A1234001A2B3C4",
         "Build configuration list for PBXNativeTarget \"LiquidSky\"", "star",
         << E("buildConfigurations", "A100000D294A1234001A2B3C4", "Debug"),
            E("buildConfigurations", "A100000E294A1234001A2B3C4", "Release") >>) >>

\* the text create_minimal_xcode_project assigns to pbxproj_content
minimal_pbxproj_content ==
  << Marker("Begin PBXBuildFile section") >> \o minimal_build_files
  \o << Marker("End PBXBuildFile section"),
        Marker("Begin PBXFileReference section") >> \o minimal_file_references
  \o << Marker("End PBXFileReference section"),
        Marker("Begin PBXFrameworksBuildPhase section"),
        Rec("PBXFrameworksBuildPhase", "A0FFFDFC294A1234001A2B3C4", "Frameworks",
            "star", <<>>),
        Marker("End PBXFrameworksBuildPhase section"),
        Marker("Begin PBXGroup section") >> \o minimal_groups
  \o << Marker("End PBXGroup section"),
        Marker("Begin PBXNativeTarget section"),
        minimal_native_target,
        Marker("End PBXNativeTarget section"),
        Marker("Begin PBXProject section"),
        minimal_project,
        Marker("End PBXProject section"),
        Marker("Begin PBXResourcesBuildPhase section"),
        Rec("PBXResourcesBuildPhase", "A0FFFDFD294A1234001A2B3C4", "Resources",
            "star", <<>>),
        Marker("End PBXResourcesBuildPhase section"),
        Marker("Begin PBXSourcesBuildPhase section"),
        Rec("PBXSourcesBuildPhase", "A0FFFDFB294A1234001A2B3C4", "Sources", "star",
            << E("files", "A1000001294A1234001A2B3C4",
                 "LiquidSkyApp.swift in Sources") >>),
        Marker("End PBXSourcesBuildPhase section"),
        Marker("Begin XCBuildConfiguration section") >> \o minimal_configurations
  \o << Marker("End XCBuildConfiguration section"),
        Marker("Begin XCConfigurationList section") >> \o minimal_configuration_lists
  \o << Marker("End XCConfigurationList section"),
        Rec("rootObject", "", "", "none",
            << E("rootObject", "A0FFFDF7294A1234001A2B3C4", "Project object") >>) >>

(***************************************************************************)
(* One run of create_minimal_xcode_project in the LiquidSky directory      *)
(***************************************************************************)
\* what a path of the file system is
PathKinds == {"absent", "dir", "file"}

\* what project.pbxproj can hold before the run: nothing, the text of an
\* earlier run, or the text the other generator produces
OldTexts ==
  {<<>>, minimal_pbxproj_content, create_project_structure(<<>>, <<>>, <<>>)}

\* the states the LiquidSky directory can be in when the script starts:
\* `home` tells whether /Users/callummatthews1/LiquidSky exists, `text` is
\* the text of project.pbxproj when that is a file, `settings` tells
\* whether WorkspaceSettings.xcsettings holds the text the script writes
Disks ==
  {d \in [home : BOOLEAN, project_dir : PathKinds, pbxproj : PathKinds,
          text : OldTexts,
          workspace_dir : PathKinds, xcsettings_dir : PathKinds,
          xcsettings : PathKinds, settings : {"", "other", "written"}] :
     /\ d.project_dir # "absent" => d.home
     /\ d.pbxproj # "absent" => d.project_dir = "dir"
     /\ d.workspace_dir # "absent" => d.project_dir = "dir"
     /\ d.xcsettings_dir # "absent" => d.workspace_dir = "dir"
     /\ d.xcsettings # "absent" => d.xcsettings_dir = "dir"
     /\ d.pbxproj # "file" => d.text = <<>>
     /\ d.settings = "" <=> d.xcsettings # "file" }

\* Path.mkdir(exist_ok=True) succeeds on a directory and creates the path
\* when its parent is a directory; it raises on a file and on a missing parent
mkdir_ok(kind, parent_is_dir) ==
  kind = "dir" \/ (kind = "absent" /\ parent_is_dir)

InitMinimal ==
  /\ InitIdleAux
  /\ disk \in Disks
  /\ pc = "mkdir_project_dir"
  /\ script = "create_minimal_xcode_project"
  /\ to_write = minimal_pbxproj_content
  /\ returned = {} /\ uuid = ""
  /\ InitIdleMut
  /\ InitIdleGen

\* project_dir.mkdir(exist_ok=True)
MkdirProjectDir ==
  /\ pc = "mkdir_project_dir"
  /\ IF mkdir_ok(disk.project_dir, disk.home)
     THEN disk' = [disk EXCEPT !.project_dir = "dir"] /\ pc' = "open_pbxproj"
     ELSE disk' = disk /\ pc' = "raised"
  /\ UNCHANGED <<script, to_write, returned, uuid>>
  /\ UNCHANGED mut_vars
  /\ UNCHANGED gen_vars
  /\ UNCHANGED aux_vars

\* open(project_dir / "project.pbxproj", 'w'): the file is created, or
\* truncated when it exists
OpenPbxproj ==
  /\ pc = "open_pbxproj"
  /\ IF disk.pbxproj # "dir"
     THEN /\ disk' = [disk EXCEPT !.pbxproj = "file", !.text = <<>>]
          /\ pc' = "write_pbxproj"
     ELSE disk' = disk /\ pc' = "raised"
  /\ UNCHANGED <<script, to_write, returned, uuid>>
  /\ UNCHANGED mut_vars
  /\ UNCHANGED gen_vars
  /\ UNCHANGED aux_vars

\* f.write(pbxproj_content) and the end of the `with` block
WritePbxproj ==
  /\ pc = "write_pbxproj"
  /\ disk' = [disk EXCEPT !.text = to_write]
  /\ pc' = "mkdir_workspace_dir"
  /\ UNCHANGED <<script, to_write, returned, uuid>>
  /\ UNCHANGED mut_vars
  /\ UNCHANGED gen_vars
  /\ UNCHANGED aux_vars

\* workspace_dir.mkdir(exist_ok=True)
MkdirWorkspaceDir ==
  /\ pc = "mkdir_workspace_dir"
  /\ IF mkdir_ok(disk.workspace_dir, disk.project_dir = "dir")
     THEN disk' = [disk EXCEPT !.workspace_dir = "dir"] /\ pc' = "mkdir_xcsettings_dir"
     ELSE disk' = disk /\ pc' = "raised"
  /\ UNCHANGED <<script, to_write, returned, uuid>>
  /\ UNCHANGED mut_vars
  /\ UNCHANGED gen_vars
  /\ UNCHANGED aux_vars

\* xcsettings_dir.mkdir(exist_ok=True)
MkdirXcsettingsDir ==
  /\ pc = "mkdir_xcsettings_dir"
  /\ IF mkdir_ok(disk.xcsettings_dir, disk.workspace_dir = "dir")
     THEN disk' = [disk EXCEPT !.xcsettings_dir = "dir"] /\ pc' = "write_xcsettings"
     ELSE disk' = disk /\ pc' = "raised"
  /\ UNCHANGED <<script, to_write, returned, uuid>>
  /\ UNCHANGED mut_vars
  /\ UNCHANGED gen_vars
  /\ UNCHANGED aux_vars

\* the WorkspaceSettings.xcsettings file is written and success is printed
WriteXcsettings ==
  /\ pc = "write_xcsettings"
  /\ IF disk.xcsettings # "dir"
     THEN /\ disk' = [disk EXCEPT !.xcsettings = "file", !.settings = "written"]
          /\ pc' = "done"
     ELSE disk' = disk /\ pc' = "raised"
  /\ UNCHANGED <<script, to_write, returned, uuid>>
  /\ UNCHANGED mut_vars
  /\ UNCHANGED gen_vars
  /\ UNCHANGED aux_vars

NextMinimal ==
  \/ MkdirProjectDir
  \/ OpenPbxproj
  \/ WritePbxproj
  \/ MkdirWorkspaceDir
  \/ MkdirXcsettingsDir
  \/ WriteXcsettings

SpecMinimal == InitMinimal /\ [][NextMinimal]_vars

\* project.pbxproj has been written by this run
PbxprojWritten ==
  pc \in {"mkdir_workspace_dir", "mkdir_xcsettings_dir", "write_xcsettings", "done"}

\* the isa values of the records defined under id
IsaOf(d, id) == {d[i].isa : i \in {j \in Records(d) : d[j].id = id}}

\* what the field of a reference requires of the record it names
WellTypedEntry(d, e) ==
  CASE e.f \in {"targets", "TargetAttributes"} -> IsaOf(d, e.id) = {"PBXNativeTarget"}
    [] e.f = "buildPhases" -> IsaOf(d, e.id) # {} /\ IsaOf(d, e.id) \subseteq BuildPhaseKinds
    [] e.f = "files"       -> IsaOf(d, e.id) = {"PBXBuildFile"}
    [] e.f = "fileRef"     -> IsaOf(d, e.id) = {"PBXFileReference"}
    [] OTHER               -> TRUE

WellTyped(d) ==
  \A i \in 1..Len(d) : \A k \in 1..Len(d[i].refs) : WellTypedEntry(d, d[i].refs[k])

\* C18: in the document written by create_minimal_xcode_project every
\* reference is well-typed for its field: the entries of targets and the
\* keys of TargetAttributes name PBXNativeTarget records, buildPhases
\* entries name build phases, files entries name PBXBuildFile records and
\* fileRef names a PBXFileReference record.
C18_WellTypedReferences ==
  PbxprojWritten => WellTyped(disk.text)

AllReferencePositions ==
  {"fileRef", "children", "buildPhases", "files", "buildConfigurationList",
   "buildConfigurations", "productReference", "mainGroup", "productRefGroup",
   "targets", "rootObject"}

AllReferencesDefined(d) ==
  \A i \in 1..Len(d) : \A k \in 1..Len(d[i].refs) :
    d[i].refs[k].f \in AllReferencePositions => d[i].refs[k].id \in DefinedIds(d)

\* C19: in the document written by create_minimal_xcode_project every
\* identifier in a reference position is the identifier of a record of the
\* document, and no identifier is defined by two records.
C19_MinimalReferencesDefined ==
  PbxprojWritten =>
    /\ AllReferencesDefined(disk.text)
    /\ UniqueRecordIds(disk.text)

\* the run is over: the document, with the files entry of its Sources phase,
\* and the workspace settings are written
C19_Witness ==
  /\ pc = "done"
  /\ disk.text = minimal_pbxproj_content
  /\ \E i \in 1..Len(disk.text) : \E k \in 1..Len(disk.text[i].refs) :
       disk.text[i].refs[k].f = "files"
  /\ disk.settings = "written"

GeneratedReferencePositions ==
  {"buildPhases", "buildConfigurationList", "mainGroup", "productRefGroup",
   "children", "buildConfigurations", "files"}

\* the items of d with a reference, in the given fields, that names no
\* record of d
Dangling(d, fields) ==
  {i \in 1..Len(d) :
     \E k \in 1..Len(d[i].refs) :
       /\ d[i].refs[k].f \in fields
       /\ d[i].refs[k].id \notin DefinedIds(d)}

\* C20: in the document create_project_structure returns, for every list of
\* discovered files, every identifier in a reference position (buildPhases,
\* buildConfigurationList, mainGroup, productRefGroup, children,
\* buildConfigurations, files) is the identifier of a record of the document.
C20_GeneratedReferencesDefined ==
  gen_pc = "done" => Dangling(pbxproj_content, GeneratedReferencePositions) = {}

(***************************************************************************)
(* The two generators, each run once, in either order                      *)
(***************************************************************************)
\* the LiquidSky directory before any project was generated in it
fresh_disk ==
  [home |-> TRUE, project_dir |-> "absent", pbxproj |-> "absent", text |-> <<>>,
   workspace_dir |-> "absent", xcsettings_dir |-> "absent",
   xcsettings |-> "absent", settings |-> ""]

InitGenerate ==
  /\ InitIdleAux
  /\ gen_pc = "start"
  /\ app_files \in FileLists
  /\ features_files \in FileLists
  /\ model_files \in FileLists
  /\ pbxproj_content = <<>>
  /\ InitIdleMut
  /\ disk = fresh_disk
  /\ pc = "mkdir_project_dir"
  /\ script = "create_minimal_xcode_project"
  /\ to_write = minimal_pbxproj_content
  /\ returned = {} /\ uuid = ""

NextGenerate ==
  \/ NextCreate
  \/ NextMinimal

SpecGenerate == InitGenerate /\ [][NextGenerate]_vars

\* the rootObject of d names exactly one record, a PBXProject
RootIsProject(d) ==
  \E i \in 1..Len(d) :
    /\ d[i].isa = "rootObject"
    /\ Len(d[i].refs) = 1
    /\ Cardinality({j \in Records(d) : d[j].id = d[i].refs[1].id}) = 1
    /\ IsaOf(d, d[i].refs[1].id) = {"PBXProject"}

\* C21: in the document create_project_structure returns and in the document
\* create_minimal_xcode_project writes, the rootObject identifier is the
\* identifier of exactly one record, and that record is the PBXProject.
C21_RootIsProject ==
  /\ gen_pc = "done" => RootIsProject(pbxproj_content)
  /\ PbxprojWritten => RootIsProject(disk.text)

\* both generators have run, create_project_structure on discovered files
C21_Witness ==
  /\ gen_pc = "done"
  /\ pc = "done"
  /\ all_files # <<>>
  /\ RecordsOf(pbxproj_content, "PBXProject") # {}
  /\ RecordsOf(disk.text, "PBXProject") # {}

PackageProducts ==
  {"ATProtoKit", "KeychainSwift", "AppRouter", "Nuke", "NukeUI", "ViewInspector",
   "AcknowList"}

\* the identifiers the entry `name in Frameworks` of buildfile_entries
\* writes in field f
BuildFileRefs(name, f) ==
  {buildfile_entries[k].refs[1].id :
     k \in {j \in 1..Len(buildfile_entries) :
              /\ buildfile_entries[j].name = name \o " in Frameworks"
              /\ buildfile_entries[j].refs[1].f = f}}

\* the identifiers under which the table `entries` defines a record `name`
TableIds(entries, name) ==
  {entries[k].id : k \in {j \in 1..Len(entries) : entries[j].name = name}}

\* C22: the tables of complete_framework_fix are consistent: the productRef
\* of the build file `P in Frameworks` is the identifier of the product
\* record named P, and the fileRef of `F.framework in Frameworks` is the
\* identifier of the PBXFileReference entry of F.framework.
C22_TablesConsistent ==
  LastRun = "complete_framework_fix" =>
    /\ \A product \in PackageProducts :
         BuildFileRefs(product, "productRef") = TableIds(product_refs, product)
    /\ \A fw \in SystemFrameworks :
         BuildFileRefs(fw, "fileRef") = TableIds(fileref_entries, fw)

\* s is t with some elements left out
RECURSIVE IsSubsequence(_, _)
IsSubsequence(s, t) ==
  IF s = <<>> THEN TRUE
  ELSE IF t = <<>> THEN FALSE
  ELSE IF Head(s) = Head(t) THEN IsSubsequence(Tail(s), Tail(t))
  ELSE IsSubsequence(s, Tail(t))

ListFields(r) == {r.refs[k].f : k \in 1..Len(r.refs)}

\* record b is record a, with no entry of any list of a removed
KeepsRecord(a, b) ==
  /\ a.id = b.id
  /\ a.isa = b.isa
  /\ \A f \in ListFields(a) : IsSubsequence(Ids(ListOf(a, f)), Ids(ListOf(b, f)))

\* the records before[i..] are kept, in their order, among after[j..]
RECURSIVE RecordsKept(_, _, _, _)
RecordsKept(before, after, i, j) ==
  IF i > Len(before) THEN TRUE
  ELSE IF j > Len(after) THEN FALSE
  ELSE IF KeepsRecord(before[i], after[j])
       THEN RecordsKept(before, after, i + 1, j + 1)
       ELSE RecordsKept(before, after, i, j + 1)

OnlyInserts(before, after) ==
  RecordsKept(SelectSeq(before, IsRecord), SelectSeq(after, IsRecord), 1, 1)

\* C23: the three scripts only insert: every record present before a run is
\* present after it with the same identifier and isa, no entry is removed
\* from any list, and the records that were present keep their relative
\* order.
C23_OnlyInserts == hist # <<>> => OnlyInserts(prev, content)

\* a run that added records and list entries to a document with records that
\* hold list entries
C23_Witness ==
  /\ hist # <<>>
  /\ Cardinality(Records(content)) > Cardinality(Records(prev))
  /\ \E i \in Records(prev) : \E j \in Records(content) :
       /\ prev[i].id = content[j].id
       /\ prev[i].refs # <<>>
       /\ Len(content[j].refs) > Len(prev[i].refs)

HasEmptyFrameworksPhase(d) ==
  \E i \in RecordsOf(d, "PBXFrameworksBuildPhase") : ListOf(d[i], "files") = <<>>

\* C24: for a document with an empty Frameworks build phase and none of the
\* 1D6000xx identifiers, add_framework_dependencies followed by
\* complete_framework_fix yields the same document as
\* complete_framework_fix followed by add_framework_dependencies.
C24_RunsCommute ==
  ( /\ hist = <<"add_framework_dependencies", "complete_framework_fix">>
    /\ HasEmptyFrameworksPhase(content0)
    /\ \A id \in ScriptIds : ~IdInContent(content0, id) )
  => content = add_framework_dependencies(complete_framework_fix(content0))

(***************************************************************************)
(* fix_module_imports.py                                                   *)
(*                                                                         *)
(* A text is the sequence of its characters, with every run of characters  *)
(* that the script never looks into written as one element: a word         *)
(* (`import`, a module name, other Swift code), a white-space character or *)
(* a line terminator.  No word holds white space and no word used is made  *)
(* of other words used, so a sequence of elements is one text.             *)
(***************************************************************************)
internal_modules ==
  {"AuthUI", "ChatUI", "ComposerUI", "DesignSystem", "FeedUI", "MediaUI",
   "NotificationsUI", "PostUI", "ProfileUI", "SettingsUI", "Client", "Models",
   "User", "Destinations"}

\* listed by the script and used nowhere in it
external_modules ==
  {"SwiftUI", "SwiftData", "AppRouter", "ATProtoKit", "KeychainSwift", "Nuke",
   "NukeUI", "ViewInspector", "AcknowList"}

Whitespace == {" ", "\t"}

Terminators == {"\n", "\r\n"}

\* f.read() of a file opened in text mode: every terminator becomes `\n`
read(text) == [k \in 1..Len(text) |-> IF text[k] \in Terminators THEN "\n" ELSE text[k]]

\* content.split('\n'): one more line than content has `\n`
RECURSIVE split(_)
split(s) ==
  LET ns == {k \in 1..Len(s) : s[k] = "\n"}
  IN  IF ns = {} THEN <<s>>
      ELSE <<SubSeq(s, 1, Min(ns) - 1)>> \o split(SubSeq(s, Min(ns) + 1, Len(s)))

\* '\n'.join(lines)
RECURSIVE join(_)
join(lines) ==
  IF lines = <<>> THEN <<>>
  ELSE IF Len(lines) = 1 THEN lines[1]
  ELSE lines[1] \o <<"\n">> \o join(Tail(lines))

\* line.strip()
strip(line) ==
  LET inked == {k \in 1..Len(line) : line[k] \notin Whitespace}
  IN  IF inked = {} THEN <<>>
      ELSE SubSeq(line, Min(inked), CHOOSE k \in inked : \A j \in inked : j <= k)

\* stripped.startswith('import ')
startswith_import(stripped) ==
  Len(stripped) >= 2 /\ stripped[1] = "import" /\ stripped[2] = " "

\* stripped[7:].strip() with the module name it leaves forgotten to strip
module_name_unstripped(stripped) == SubSeq(stripped, 3, Len(stripped))

\* stripped[7:].strip()
module_name(stripped) == strip(SubSeq(stripped, 3, Len(stripped)))

\* the line is skipped by the loop over the lines of a file
is_internal_import(line) ==
  /\ startswith_import(strip(line))
  /\ \E m \in internal_modules : module_name(strip(line)) = <<m>>

filtered_lines(lines) == SelectSeq(lines, LAMBDA line : ~is_internal_import(line))

\* the number of lines the loop counts in imports_removed
removed_lines(lines) == Len(lines) - Len(filtered_lines(lines))

\* the test before the write, always true
changed_always(new_text, original_content) == TRUE

\* new_content != original_content
changed(new_text, original_content) == new_text # original_content

(***************************************************************************)
(* Runs of fix_module_imports over the Swift files of a directory          *)
(***************************************************************************)
\* number of lines of all Swift files together
MaxLines == 2

\* number of runs of fix_module_imports
MaxFixRuns == 2

Lines ==
  { <<"import", " ", "AuthUI">>,
    <<" ", "import", " ", "Models", "\t">>,
    <<"import", " ", " ", "FeedUI">>,
    <<"import", "\t", "Client">>,
    <<"import", " ", "SwiftUI">>,
    <<"import", " ", "AuthUI", " ", "//">>,
    <<"let">> }

RECURSIVE LineSeqs(_)
LineSeqs(n) ==
  IF n = 0 THEN {<<>>}
  ELSE LineSeqs(n - 1) \cup {Append(ls, l) : ls \in LineSeqs(n - 1), l \in Lines}

\* the lines written with terminator eol, the last line with or without one
RECURSIVE Written(_, _, _)
Written(ls, eol, last) ==
  IF ls = <<>> THEN <<>>
  ELSE Head(ls) \o (IF Len(ls) > 1 \/ last THEN <<eol>> ELSE <<>>)
         \o Written(Tail(ls), eol, last)

SwiftFileNames == {"App.swift", "Feed.swift"}

RECURSIVE TotalLines(_, _)
TotalLines(ls, names) ==
  IF names = {} THEN 0
  ELSE LET n == CHOOSE x \in names : TRUE
       IN  Len(ls[n]) + TotalLines(ls, names \ {n})

\* what rglob("*.swift") can find under horizon_dir: the text of every file
\* that is_file() holds for
Directories ==
  UNION {{[n \in names |-> Written(ls[n], eol[n], last[n])] :
            ls \in {x \in [names -> LineSeqs(MaxLines)] : TotalLines(x, names) <= MaxLines},
            eol \in [names -> Terminators], last \in [names -> BOOLEAN]}
         : names \in SUBSET SwiftFileNames}

InitFix ==
  /\ swift_files \in Directories
  /\ swift_files0 = swift_files
  /\ todo = {}
  /\ files_processed = 0
  /\ imports_removed = 0
  /\ files_written = {}
  /\ fix_pc = "idle"
  /\ fix_runs = 0
  /\ InitIdlePackages
  /\ InitIdleMut
  /\ InitIdleGen
  /\ InitIdleStep

\* a run begins: the counters are set and rglob starts to walk the directory
RunFixModuleImports ==
  /\ fix_pc \in {"idle", "done"}
  /\ fix_runs < MaxFixRuns
  /\ fix_pc' = "loop"
  /\ fix_runs' = fix_runs + 1
  /\ todo' = DOMAIN swift_files
  /\ files_processed' = 0
  /\ imports_removed' = 0
  /\ files_written' = {}
  /\ UNCHANGED <<swift_files, swift_files0>>
  /\ UNCHANGED package_vars
  /\ UNCHANGED mut_vars
  /\ UNCHANGED gen_vars
  /\ UNCHANGED step_vars

\* one turn of the loop over the files, in whatever order rglob yields them
ProcessSwiftFile ==
  /\ fix_pc = "loop"
  /\ \E swift_file \in todo :
       LET original_content == read(swift_files[swift_file])
           lines == split(original_content)
           new_text == join(filtered_lines(lines))
       IN  /\ todo' = todo \ {swift_file}
           /\ files_processed' = files_processed + 1
           /\ imports_removed' = imports_removed + removed_lines(lines)
           /\ IF changed(new_text, original_content)
              THEN /\ swift_files' = [swift_files EXCEPT ![swift_file] = new_text]
                   /\ files_written' = files_written \cup {swift_file}
              ELSE UNCHANGED <<swift_files, files_written>>
  /\ UNCHANGED <<swift_files0, fix_pc, fix_runs>>
  /\ UNCHANGED package_vars
  /\ UNCHANGED mut_vars
  /\ UNCHANGED gen_vars
  /\ UNCHANGED step_vars

\* the loop is over: the two counters are printed
FinishFixModuleImports ==
  /\ fix_pc = "loop"
  /\ todo = {}
  /\ fix_pc' = "done"
  /\ UNCHANGED <<swift_files, swift_files0, todo, files_processed, imports_removed,
                 files_written, fix_runs>>
  /\ UNCHANGED package_vars
  /\ UNCHANGED mut_vars
  /\ UNCHANGED gen_vars
  /\ UNCHANGED step_vars

NextFix ==
  \/ RunFixModuleImports
  \/ ProcessSwiftFile
  \/ FinishFixModuleImports

SpecFix == InitFix /\ [][NextFix]_vars

\* the lines of a text, terminators left out
RECURSIVE LinesOf(_)
LinesOf(text) ==
  LET ends == {k \in 1..Len(text) : text[k] \in Terminators}
  IN  IF ends = {} THEN <<text>>
      ELSE <<SubSeq(text, 1, Min(ends) - 1)>>
             \o LinesOf(SubSeq(text, Min(ends) + 1, Len(text)))

\* the stripped text is `import ` followed by the name of an internal module
ImportOfInternal(line) ==
  \E m \in internal_modules : strip(line) = <<"import", " ", m>>

\* the stripped text is `import `, then any white space, then the name of an
\* internal module
SpacedImportOfInternal(line) ==
  LET s == strip(line)
  IN  /\ Len(s) >= 3
      /\ s[1] = "import" /\ s[2] = " "
      /\ \A k \in 3..(Len(s) - 1) : s[k] \in Whitespace
      /\ s[Len(s)] \in internal_modules

ImportOfExternal(line) ==
  \E m \in external_modules : strip(line) = <<"import", " ", m>>

\* file f has been visited by the first run and its text is the lines it had
\* without those that Removed holds for, each but the last followed by a
\* terminator; if there is none to remove, it was not written
LeftOnDisk(f, Removed(_)) ==
  LET before == LinesOf(swift_files0[f])
  IN  /\ read(swift_files[f]) = join(SelectSeq(before, LAMBDA l : ~Removed(l)))
      /\ \A k \in 1..Len(before) : ImportOfExternal(before[k]) => ~Removed(before[k])
      /\ (\A k \in 1..Len(before) : ~Removed(before[k]))
           => f \notin files_written /\ swift_files[f] = swift_files0[f]

\* C25 as stated: the content fix_module_imports leaves on disk is the
\* sequence of the input's lines, in order, without exactly the lines whose
\* stripped text is `import ` followed by the name of an internal module;
\* imports of external modules are kept and a file from which no line is
\* removed is not written.
C25_ExactImportLines ==
  fix_runs = 1 => \A f \in DOMAIN swift_files \ todo : LeftOnDisk(f, ImportOfInternal)

\* C25, amended: the content fix_module_imports leaves on disk is the
\* sequence of the input's lines, in order, without exactly the lines whose
\* stripped text is `import `, any further white space and the name of an
\* internal module; imports of external modules are kept and a file from
\* which no line is removed is not written.
C25_ImportLinesRemoved ==
  fix_runs = 1 => \A f \in DOMAIN swift_files \ todo : LeftOnDisk(f, SpacedImportOfInternal)

\* a first run that wrote one file, leaving lines in it, among them an import
\* of an external module, and taking from it an import written with two
\* spaces
C25_Witness ==
  /\ fix_runs = 1 /\ fix_pc = "done"
  /\ \E f \in files_written :
       /\ \E k \in 1..Len(LinesOf(swift_files[f])) : ImportOfExternal(LinesOf(swift_files[f])[k])
       /\ \E k \in 1..Len(LinesOf(swift_files0[f])) :
            /\ SpacedImportOfInternal(LinesOf(swift_files0[f])[k])
            /\ ~ImportOfInternal(LinesOf(swift_files0[f])[k])

\* C26: fix_module_imports is idempotent: a run that follows another run
\* removes no import line and writes no file.
C26_SecondRunIdle ==
  fix_runs >= 2 => imports_removed = 0 /\ files_written = {}

\* a second run has visited two files, after a first run that wrote one
C26_Witness ==
  /\ fix_runs = 2 /\ fix_pc = "done"
  /\ files_processed = 2
  /\ swift_files # swift_files0

(***************************************************************************)
(* add_packages_to_horizon.py                                              *)
(***************************************************************************)
horizon_packages ==
  << [url |-> "https://github.com/MasterJ93/ATProtoKit", version |-> "from: 0.31.2"],
     [url |-> "https://github.com/evgenyneu/keychain-swift", version |-> "from: 24.0.0"],
     [url |-> "https://github.com/Dimillian/AppRouter.git", version |-> "from: 1.0.2"],
     [url |-> "https://github.com/kean/Nuke", version |-> "from: 12.8.0"],
     [url |-> "https://github.com/nalexn/ViewInspector", version |-> "from: 0.10.1"],
     [url |-> "https://github.com/vtourraine/AcknowList", version |-> "from: 3.3.0"] >>

\* what subprocess.run can do: return with code 0, return with another code,
\* or raise (xcodebuild is not installed, for one)
Outcomes == {"returncode 0", "returncode non-zero", "Exception"}

\* where the run stands after an attempt had no `except` clause around it
after_attempt_uncaught(outcome) == IF outcome = "Exception" THEN "raised" ELSE "loop"

\* where the run stands after an attempt: each of the three outcomes is
\* answered by a print, and the loop goes on
after_attempt(outcome) == "loop"

InitPackages ==
  /\ attempts = <<>>
  /\ package_pc = "start"
  /\ InitIdleFix
  /\ InitIdleMut
  /\ InitIdleGen
  /\ InitIdleStep

RunAddPackageDependencies ==
  /\ package_pc = "start"
  /\ package_pc' = "loop"
  /\ UNCHANGED attempts
  /\ UNCHANGED fix_vars
  /\ UNCHANGED mut_vars
  /\ UNCHANGED gen_vars
  /\ UNCHANGED step_vars

\* one turn of the loop: xcodebuild is called for the next package
AddPackage ==
  /\ package_pc = "loop"
  /\ Len(attempts) < Len(horizon_packages)
  /\ \E outcome \in Outcomes :
       /\ attempts' = Append(attempts, [url |-> horizon_packages[Len(attempts) + 1].url,
                                        outcome |-> outcome])
       /\ package_pc' = after_attempt(outcome)
  /\ UNCHANGED fix_vars
  /\ UNCHANGED mut_vars
  /\ UNCHANGED gen_vars
  /\ UNCHANGED step_vars

\* the list is exhausted: the two closing lines are printed
FinishAddPackageDependencies ==
  /\ package_pc = "loop"
  /\ Len(attempts) = Len(horizon_packages)
  /\ package_pc' = "done"
  /\ UNCHANGED attempts
  /\ UNCHANGED fix_vars
  /\ UNCHANGED mut_vars
  /\ UNCHANGED gen_vars
  /\ UNCHANGED step_vars

NextPackages ==
  \/ RunAddPackageDependencies
  \/ AddPackage
  \/ FinishAddPackageDependencies

SpecPackages == InitPackages /\ [][NextPackages]_vars

\* the interpreter runs the function on: a call of subprocess.run returns or
\* raises, and the statement after it is executed
FairSpecPackages == SpecPackages /\ WF_vars(NextPackages)

\* the attempts made are the first packages of the list, one attempt each
AttemptsInListOrder ==
  /\ Len(attempts) <= Len(horizon_packages)
  /\ \A k \in 1..Len(attempts) : attempts[k].url = horizon_packages[k].url

AllAttempted == package_pc = "done" /\ Len(attempts) = Len(horizon_packages)

\* C27: add_package_dependencies attempts every package of its list exactly
\* once, in list order, whatever the outcome of the earlier attempts: neither
\* a non-zero return code nor an exception keeps a later package from being
\* attempted, and the run ends after the last package.
C27_EveryPackageAttempted ==
  /\ []AttemptsInListOrder
  /\ <>AllAttempted
  /\ [][AllAttempted => AllAttempted']_vars

\* a run that has ended, whose first attempt raised and whose second returned
\* a non-zero code
C27_Witness ==
  /\ AllAttempted
  /\ attempts[1].outcome = "Exception"
  /\ attempts[2].outcome = "returncode non-zero"
  /\ attempts[Len(attempts)].outcome = "returncode 0"

====
